---- MODULE Spec2Model ----
(***************************************************************************)
(* Connection-management core of the chat application.                     *)
(*                                                                         *)
(* Server side: WebSocketService of backend/src/services/websocketService  *)
(* (the multi-connection revision, src/unnamed/part_000 lines 401-829):    *)
(* registry `clients`, handshake, close handler, heartbeat sweep and the   *)
(* dispatcher (sendToClient, notifyNewMessage, broadcast).                  *)
(*                                                                         *)
(* Client side: WebSocketService of frontend/src/services/websocketService *)
(* (src/frontend/src/contexts/ConversationContext.tsx lines 622-949):      *)
(* connect, disconnect, transport callbacks and the reconnect timer.       *)
(*                                                                         *)
(* Every handler runs to completion on a single event loop, so each        *)
(* handler is one atomic action.                                           *)
(***************************************************************************)
EXTENDS Integers, Sequences, FiniteSets, TLC

\* ---------------------------------------------------------------- bounds
MaxConn == 2        \* server-side socket slots that may be live at once
MaxSock == 3        \* client-side sockets that may be live (not yet closed) at once
NumUsers == 2       \* distinct user ids carried by valid tokens
NumOrigins == 2     \* distinct Origin headers a handshake may declare
JitterSteps == 4    \* values k / JitterSteps that Math.random() is drawn from
MaxListeners == 1   \* callbacks registered under one event name at once

\* ------------------------------------------------------ program constants
CONNECTING == 0     \* ws readyState values
OPEN == 1
CLOSING == 2
CLOSED == 3
PolicyViolation == 1008
PingIntervalMs == 30000

MaxReconnectAttempts == 10
InitialReconnectDelay == 1000
MaxReconnectDelay == 30000
NormalClosure == 1000
GoingAway == 1001
NoStatusReceived == 1005
AbnormalClosure == 1006
InternalError == 1011
Forbidden == 403    \* HTTP statuses verifyClient refuses an upgrade with
Unauthorized == 401

Conn == 1..MaxConn
User == 1..NumUsers
NoUser == 0
NoConn == 0
Origin == 1..NumOrigins
NoOrigin == 0
NoToken == 0                    \* the handshake URL carries no token
BadToken == NumUsers + 1        \* a token jwt.verify rejects
Token == 0..(NumUsers + 1)

VARIABLES
  wssClients,   \* wss.clients of the ws library (clientTracking), insertion order
  readyState,   \* readyState of each server-side socket slot
  userId,       \* authWs.userId, NoUser while unset
  isAlive,      \* authWs.isAlive (unset counts as false)
  clients,      \* this.clients: user id -> list of that user's sockets
  closeCode,    \* code the server passed to ws.close, 0 if none
  missed,       \* sweeps that visited the socket since its last pong: 0, 1, 2 (or more)
  last,         \* what the most recent handler did (sends, result, sweep)
  production,   \* process.env.NODE_ENV === 'production'
  allowedOrigins, \* process.env.ALLOWED_ORIGINS split at ',', empty when unset
  clientMap,    \* this.clients of the one-socket-per-user revision: user id -> socket
  latestOf      \* that revision: the socket of the user's latest handshake while it is tracked

config == <<production, allowedOrigins>>

serverVars == <<wssClients, readyState, userId, isAlive, clients, closeCode, missed, last,
                config, clientMap, latestOf>>

VARIABLES
  sockState,          \* readyState of each socket the browser client created
  socket,             \* this.socket: a slot, or NoSock for null
  isConnected,        \* this.isConnected
  reconnectAttempts,  \* this.reconnectAttempts
  timerPending,       \* the setTimeout of attemptReconnect is armed and has not fired
  heartbeatOn,        \* this.heartbeatInterval is set
  urlSet,             \* this.url is non-empty
  idle,               \* disconnectWebSocket was the last API call (or none was made yet)
  newSinceIdle,       \* a socket was created while idle
  abnormalRun,        \* abnormal closures handled since the counter was last reset
  staleTimer,         \* a reconnect timer was pending when handleOpen last reset the counter
  failedCount,        \* reconnect_failed events emitted since the counter was last reset
  lastEv,             \* the most recent client step (op, close code) and the event it emitted
  messageListeners    \* this.messageListeners: event name -> number of callbacks registered

clientVars == <<sockState, socket, isConnected, reconnectAttempts, timerPending,
                heartbeatOn, urlSet, idle, newSinceIdle, abnormalRun, staleTimer,
                failedCount, lastEv, messageListeners>>

vars == <<serverVars, clientVars>>

Slot == 1..MaxSock
NoSock == 0
\* names under which the application registers listeners (ChatPage registers
\* 'open' and 'message') and types an inbound envelope may carry
ListenType == {"open", "message", "pong", "new_message", "reconnecting", "reconnect_failed"}
InboundType == {"connected", "pong", "new_message"}

NoneInvoked == [t \in ListenType |-> 0]

\* invoked: how many callbacks the step called under each event name
NoEvent == [name |-> "none", attempt |-> 0, op |-> "none", code |-> 0, delay |-> 0,
            invoked |-> NoneInvoked]

\* ------------------------------------------------------------- helpers
Range(s) == {s[i] : i \in 1..Len(s)}

RemoveAt(s, i) == [j \in 1..(Len(s) - 1) |-> IF j < i THEN s[j] ELSE s[j + 1]]

Min(S) == CHOOSE x \in S : \A y \in S : x <= y

\* index of the first element satisfying conn.connectionId === ws.connectionId, 0 for -1
FindIndex(s, c) ==
  IF c \in Range(s) THEN Min({i \in 1..Len(s) : s[i] = c}) ELSE 0

Registered == UNION {Range(clients[u]) : u \in DOMAIN clients}

NoCall == [op |-> "none", user |-> NoUser, ret |-> FALSE, escaped |-> FALSE,
           delivered |-> {}, thrownAt |-> 0, dead |-> {},
           tok |-> NoToken, origin |-> NoOrigin, status |-> 0, reason |-> ""]

\* jwt.verify: the decoded id of a valid token, NoUser when it throws
JwtVerify(tok) == IF tok \in User THEN tok ELSE NoUser

\* ------------------------------------------------------------ registry
\* a registration that puts the new socket in front of the user's list
RegisterInFront(cl, u, c) ==
  IF u \in DOMAIN cl
    THEN [cl EXCEPT ![u] = <<c>> \o @]
    ELSE [v \in (DOMAIN cl) \cup {u} |-> IF v = u THEN <<c>> ELSE cl[v]]

\* a registration that pushes the socket twice
RegisterTwice(cl, u, c) ==
  IF u \in DOMAIN cl
    THEN [cl EXCEPT ![u] = Append(Append(@, c), c)]
    ELSE [v \in (DOMAIN cl) \cup {u} |-> IF v = u THEN <<c, c>> ELSE cl[v]]

\* handleConnection: if (!clients.has(id)) clients.set(id, []); clients.get(id).push(ws)
Register(cl, u, c) ==
  IF u \in DOMAIN cl
    THEN [cl EXCEPT ![u] = Append(@, c)]
    ELSE [v \in (DOMAIN cl) \cup {u} |-> IF v = u THEN <<c>> ELSE cl[v]]

\* a close handler that forgets to drop the emptied key
UnregisterKeepsKey(cl, u, c) ==
  IF u \notin DOMAIN cl THEN cl
  ELSE LET i == FindIndex(cl[u], c)
       IN IF i = 0 THEN cl ELSE [cl EXCEPT ![u] = RemoveAt(@, i)]

\* handleClose: splice the socket out of its user's list, delete the key when empty
Unregister(cl, u, c) ==
  IF u \notin DOMAIN cl THEN cl
  ELSE LET i == FindIndex(cl[u], c)
           rest == IF i = 0 THEN cl[u] ELSE RemoveAt(cl[u], i)
       IN IF Len(rest) = 0
            THEN [v \in (DOMAIN cl) \ {u} |-> cl[v]]
            ELSE [cl EXCEPT ![u] = rest]

\* the state after construction, whatever the environment variables are
InitState ==
  /\ wssClients = <<>>
  /\ readyState = [c \in Conn |-> CLOSED]
  /\ userId = [c \in Conn |-> NoUser]
  /\ isAlive = [c \in Conn |-> FALSE]
  /\ clients = <<>>
  /\ closeCode = [c \in Conn |-> 0]
  /\ missed = [c \in Conn |-> 0]
  /\ last = NoCall
  /\ clientMap = [u \in User |-> NoConn]
  /\ latestOf = [u \in User |-> NoConn]
  /\ sockState = [k \in Slot |-> CLOSED]
  /\ socket = NoSock
  /\ isConnected = FALSE
  /\ reconnectAttempts = 0
  /\ timerPending = FALSE
  /\ heartbeatOn = FALSE
  /\ urlSet = FALSE
  /\ idle = TRUE
  /\ newSinceIdle = FALSE
  /\ abnormalRun = 0
  /\ staleTimer = FALSE
  /\ failedCount = 0
  /\ lastEv = NoEvent
  /\ messageListeners = NoneInvoked

\* a server started outside production: initialize passes no verifyClient.
\* What a production server can reach is reached here too, since verifyClient
\* only refuses handshakes and a refusal leaves the server as it was.
Init ==
  /\ InitState
  /\ production = FALSE
  /\ allowedOrigins = {}

\* a server started under any NODE_ENV and ALLOWED_ORIGINS
HandshakeInit ==
  /\ InitState
  /\ production \in BOOLEAN
  /\ allowedOrigins \in SUBSET Origin

\* ----------------------------------------------------------- handshake
FreeSlots == {c \in Conn : readyState[c] = CLOSED /\ c \notin Range(wssClients)}

\* a handler that gives every failure the same reason
CloseReasonAlwaysFailed(tok) == "Authentication failed"

\* the reason handleConnection passes to ws.close(1008, ...)
CloseReason(tok) ==
  IF tok = NoToken THEN "Authentication required" ELSE "Authentication failed"

\* wss 'connection' event: the library has added the socket to wss.clients
\* (readyState OPEN) and handleConnection runs on it.
HandleConnection(tok, origin) ==
  /\ FreeSlots # {}
  /\ UNCHANGED <<config, clientMap, latestOf, clientVars>>
  /\ LET c == Min(FreeSlots)
         id == JwtVerify(tok)
     IN /\ wssClients' = Append(wssClients, c)
        /\ IF tok = NoToken \/ id = NoUser
             THEN \* ws.close(1008, ...): the socket starts its closing handshake
                  /\ readyState' = [readyState EXCEPT ![c] = CLOSING]
                  /\ closeCode' = [closeCode EXCEPT ![c] = PolicyViolation]
                  /\ last' = [NoCall EXCEPT !.op = "rejected", !.dead = {c},
                                            !.tok = tok, !.origin = origin,
                                            !.status = PolicyViolation,
                                            !.reason = CloseReason(tok)]
                  /\ UNCHANGED <<userId, isAlive, clients, missed>>
             ELSE /\ readyState' = [readyState EXCEPT ![c] = OPEN]
                  /\ userId' = [userId EXCEPT ![c] = id]
                  /\ isAlive' = [isAlive EXCEPT ![c] = TRUE]
                  /\ clients' = Register(clients, id, c)
                  /\ missed' = [missed EXCEPT ![c] = 0]
                  \* welcome message: sendToClient(authWs, {type: 'connected'})
                  /\ last' = [NoCall EXCEPT !.op = "connected", !.user = id,
                                            !.ret = TRUE, !.delivered = {c},
                                            !.tok = tok, !.origin = origin]
                  /\ UNCHANGED closeCode

\* a verifyClient that looks at the token before the origin
VerifyClientTokenFirst(tok, origin) ==
  IF tok = NoToken THEN Unauthorized
  ELSE IF JwtVerify(tok) = NoUser THEN Unauthorized
  ELSE IF production /\ allowedOrigins # {} /\ origin \notin allowedOrigins THEN Forbidden
  ELSE 0

\* verifyClient: the HTTP status the upgrade is refused with, 0 when it is let
\* through (callback(true))
VerifyClient(tok, origin) ==
  IF production /\ allowedOrigins # {} /\ origin \notin allowedOrigins THEN Forbidden
  ELSE IF tok = NoToken THEN Unauthorized
  ELSE IF JwtVerify(tok) = NoUser THEN Unauthorized
  ELSE 0

\* an upgrade request arrives. In production the library asks verifyClient first
\* and answers a refused request with the HTTP status, creating no socket;
\* otherwise, and after verifyClient let it through, 'connection' is emitted.
Upgrade(tok, origin) ==
  IF production /\ VerifyClient(tok, origin) # 0
    THEN /\ last' = [NoCall EXCEPT !.op = "refused", !.tok = tok, !.origin = origin,
                                   !.status = VerifyClient(tok, origin),
                                   !.reason = IF VerifyClient(tok, origin) = Forbidden
                                                THEN "Forbidden" ELSE "Unauthorized"]
         /\ UNCHANGED <<wssClients, readyState, userId, isAlive, clients, closeCode, missed>>
         /\ UNCHANGED <<config, clientMap, latestOf, clientVars>>
    ELSE HandleConnection(tok, origin)

\* authWs.on('pong'): the peer answered a ping
Pong(c) ==
  /\ readyState[c] = OPEN
  /\ userId[c] # NoUser
  /\ isAlive' = [isAlive EXCEPT ![c] = TRUE]
  /\ missed' = [missed EXCEPT ![c] = 0]
  /\ last' = NoCall
  /\ UNCHANGED <<wssClients, readyState, userId, clients, closeCode>>
  /\ UNCHANGED <<config, clientMap, latestOf, clientVars>>

\* the peer's close frame arrives: the library answers it and the socket is
\* CLOSING, still in wss.clients and in the registry, until 'close' is emitted
PeerClose(c) ==
  /\ c \in Range(wssClients)
  /\ readyState[c] = OPEN
  /\ readyState' = [readyState EXCEPT ![c] = CLOSING]
  /\ last' = NoCall
  /\ UNCHANGED <<wssClients, userId, isAlive, clients, closeCode, missed>>
  /\ UNCHANGED <<config, clientMap, latestOf, clientVars>>

\* the socket's 'close' event (peer close, network loss, or the end of a close
\* or terminate the server started): the library drops the socket from
\* wss.clients and, for a socket that passed the handshake, handleClose runs
SocketClosed(c) ==
  /\ c \in Range(wssClients)
  /\ readyState[c] \in {OPEN, CLOSING}
  /\ wssClients' = RemoveAt(wssClients, FindIndex(wssClients, c))
  /\ readyState' = [readyState EXCEPT ![c] = CLOSED]
  /\ clients' = IF userId[c] # NoUser THEN Unregister(clients, userId[c], c) ELSE clients
  /\ userId' = [userId EXCEPT ![c] = NoUser]
  /\ isAlive' = [isAlive EXCEPT ![c] = FALSE]
  /\ closeCode' = [closeCode EXCEPT ![c] = 0]
  /\ missed' = [missed EXCEPT ![c] = 0]
  /\ last' = [NoCall EXCEPT !.op = "closed", !.user = userId[c]]
  /\ UNCHANGED <<config, clientMap, latestOf, clientVars>>

\* ----------------------------------------------------------- heartbeat
\* a terminate that leaves the socket as it is
TerminateNoop(rs, c) == rs

\* ws.terminate(): nothing on a CLOSED socket, otherwise the socket is destroyed
\* and stays CLOSING until its 'close' event is emitted
Terminate(rs, c) == IF rs[c] = CLOSED THEN rs ELSE [rs EXCEPT ![c] = CLOSING]

\* a sweep step that terminates whatever the liveness flag says
SweepStepReapsAll(st, c) ==
  [st EXCEPT !.rs = Terminate(st.rs, c),
             !.dead = @ \cup {c},
             !.missed[c] = IF @ < 2 THEN @ + 1 ELSE @]

\* a sweep step that pings without clearing the liveness flag
SweepStepKeepsFlag(st, c) ==
  IF ~st.alive[c]
    THEN [st EXCEPT !.rs = Terminate(st.rs, c),
                    !.dead = @ \cup {c},
                    !.missed[c] = IF @ < 2 THEN @ + 1 ELSE @]
    ELSE [st EXCEPT !.pinged = @ \cup {c},
                    !.missed[c] = IF @ < 2 THEN @ + 1 ELSE @]

\* one iteration of the forEach of checkConnections; st carries the sockets'
\* fields plus what the sweep did (dead: visited with the flag false, pinged)
SweepStep(st, c) ==
  IF ~st.alive[c]
    THEN [st EXCEPT !.rs = Terminate(st.rs, c),
                    !.dead = @ \cup {c},
                    !.missed[c] = IF @ < 2 THEN @ + 1 ELSE @]
    ELSE [st EXCEPT !.alive[c] = FALSE,
                    !.pinged = @ \cup {c},
                    !.missed[c] = IF @ < 2 THEN @ + 1 ELSE @]

\* a sweep that stops at the first socket it cannot ping or terminate cleanly
RECURSIVE SweepFromStopsAtFailure(_, _)
SweepFromStopsAtFailure(conns, st) ==
  IF conns = <<>> THEN st
  ELSE IF st.rs[Head(conns)] # OPEN THEN SweepStep(st, Head(conns))
  ELSE SweepFromStopsAtFailure(Tail(conns), SweepStep(st, Head(conns)))

RECURSIVE SweepFrom(_, _)
SweepFrom(conns, st) ==
  IF conns = <<>> THEN st ELSE SweepFrom(Tail(conns), SweepStep(st, Head(conns)))

\* setInterval(() => this.checkConnections(), 30000)
CheckConnections ==
  LET st == SweepFrom(wssClients,
                      [rs |-> readyState, alive |-> isAlive, missed |-> missed,
                       dead |-> {}, pinged |-> {}])
  IN /\ readyState' = st.rs
     /\ isAlive' = st.alive
     /\ missed' = st.missed
     /\ last' = [NoCall EXCEPT !.op = "sweep", !.dead = st.dead, !.delivered = st.pinged]
     /\ UNCHANGED <<wssClients, userId, clients, closeCode>>
     /\ UNCHANGED <<config, clientMap, latestOf, clientVars>>

\* the heartbeat machinery alone, with peers that may start closing at any time
HeartbeatNext ==
  \/ \E tok \in Token, origin \in Origin : Upgrade(tok, origin)
  \/ \E c \in Conn : Pong(c)
  \/ \E c \in Conn : PeerClose(c)
  \/ \E c \in Conn : SocketClosed(c)
  \/ CheckConnections

HeartbeatSpec == Init /\ [][HeartbeatNext]_vars

\* the handshake alone, under every environment
HandshakeNext ==
  \/ \E tok \in Token, origin \in Origin : Upgrade(tok, origin)
  \/ \E c \in Conn : SocketClosed(c)

HandshakeSpec == HandshakeInit /\ [][HandshakeNext]_vars

\* ------------------------------------- the one-socket-per-user revision
\* The revision whose registry is Map<userId, socket>. It shares the socket
\* fields with the other revision and keeps its registry in clientMap.

\* this.clients.delete(ws.userId), as the close handler and the sweep call it
\* for socket c
DeleteEntry(cm, u, c) == [cm EXCEPT ![u] = NoConn]

\* wss 'connection' handler: isAlive = true, then the token is checked; a valid
\* one overwrites the user's entry and the welcome goes through sendToClient
SingleConnection(tok) ==
  /\ FreeSlots # {}
  /\ LET c == Min(FreeSlots)
         id == JwtVerify(tok)
     IN /\ wssClients' = Append(wssClients, c)
        /\ isAlive' = [isAlive EXCEPT ![c] = TRUE]
        /\ missed' = [missed EXCEPT ![c] = 0]
        /\ IF tok = NoToken \/ id = NoUser
             THEN /\ readyState' = [readyState EXCEPT ![c] = CLOSING]
                  /\ closeCode' = [closeCode EXCEPT ![c] = PolicyViolation]
                  /\ last' = [NoCall EXCEPT !.op = "rejected", !.dead = {c}, !.tok = tok,
                                            !.status = PolicyViolation,
                                            !.reason = CloseReason(tok)]
                  /\ UNCHANGED <<userId, clientMap, latestOf>>
             ELSE /\ readyState' = [readyState EXCEPT ![c] = OPEN]
                  /\ userId' = [userId EXCEPT ![c] = id]
                  /\ clientMap' = [clientMap EXCEPT ![id] = c]
                  /\ latestOf' = [latestOf EXCEPT ![id] = c]
                  /\ last' = [NoCall EXCEPT !.op = "connected", !.user = id, !.ret = TRUE,
                                            !.delivered = {c}, !.tok = tok]
                  /\ UNCHANGED closeCode
  /\ UNCHANGED <<clients, config, clientVars>>

\* ws.on('pong')
SinglePong(c) ==
  /\ readyState[c] = OPEN
  /\ userId[c] # NoUser
  /\ isAlive' = [isAlive EXCEPT ![c] = TRUE]
  /\ missed' = [missed EXCEPT ![c] = 0]
  /\ last' = NoCall
  /\ UNCHANGED <<wssClients, readyState, userId, clients, closeCode, clientMap, latestOf>>
  /\ UNCHANGED <<config, clientVars>>

\* the socket's 'close' event: ws.on('close') deletes the user's entry
SingleClosed(c) ==
  /\ c \in Range(wssClients)
  /\ readyState[c] \in {OPEN, CLOSING}
  /\ wssClients' = RemoveAt(wssClients, FindIndex(wssClients, c))
  /\ readyState' = [readyState EXCEPT ![c] = CLOSED]
  /\ clientMap' = IF userId[c] # NoUser THEN DeleteEntry(clientMap, userId[c], c)
                                        ELSE clientMap
  /\ latestOf' = [u \in User |-> IF latestOf[u] = c THEN NoConn ELSE latestOf[u]]
  /\ userId' = [userId EXCEPT ![c] = NoUser]
  /\ isAlive' = [isAlive EXCEPT ![c] = FALSE]
  /\ closeCode' = [closeCode EXCEPT ![c] = 0]
  /\ missed' = [missed EXCEPT ![c] = 0]
  /\ last' = [NoCall EXCEPT !.op = "closed", !.user = userId[c]]
  /\ UNCHANGED <<clients, config, clientVars>>

\* one iteration of the forEach of this revision's checkConnections
SingleSweepStep(st, c) ==
  IF ~st.alive[c]
    THEN [st EXCEPT !.cm = IF userId[c] # NoUser THEN DeleteEntry(@, userId[c], c) ELSE @,
                    !.rs = Terminate(st.rs, c),
                    !.dead = @ \cup {c},
                    !.missed[c] = IF @ < 2 THEN @ + 1 ELSE @]
    ELSE [st EXCEPT !.alive[c] = FALSE,
                    !.pinged = @ \cup {c},
                    !.missed[c] = IF @ < 2 THEN @ + 1 ELSE @]

RECURSIVE SingleSweepFrom(_, _)
SingleSweepFrom(conns, st) ==
  IF conns = <<>> THEN st
  ELSE SingleSweepFrom(Tail(conns), SingleSweepStep(st, Head(conns)))

SingleCheckConnections ==
  LET st == SingleSweepFrom(wssClients,
                            [rs |-> readyState, alive |-> isAlive, missed |-> missed,
                             cm |-> clientMap, dead |-> {}, pinged |-> {}])
  IN /\ readyState' = st.rs
     /\ isAlive' = st.alive
     /\ missed' = st.missed
     /\ clientMap' = st.cm
     /\ last' = [NoCall EXCEPT !.op = "sweep", !.dead = st.dead, !.delivered = st.pinged]
     /\ UNCHANGED <<wssClients, userId, clients, closeCode, latestOf>>
     /\ UNCHANGED <<config, clientVars>>

\* sendToClient(userId, data) of this revision; throws: client.send(
\* JSON.stringify(data)) throws, which the catch turns into false
SingleSendToClient(u, throws) ==
  LET c == clientMap[u]
      sent == c # NoConn /\ readyState[c] = OPEN /\ ~throws
  IN /\ last' = [NoCall EXCEPT !.op = "sendToClient", !.user = u, !.ret = sent,
                               !.delivered = IF sent THEN {c} ELSE {},
                               !.thrownAt = IF c # NoConn /\ readyState[c] = OPEN /\ throws
                                              THEN c ELSE NoConn]
     /\ UNCHANGED <<wssClients, readyState, userId, isAlive, clients, closeCode, missed,
                    clientMap, latestOf>>
     /\ UNCHANGED <<config, clientVars>>

SingleNext ==
  \/ \E tok \in Token : SingleConnection(tok)
  \/ \E c \in Conn : SinglePong(c)
  \/ \E c \in Conn : SingleClosed(c)
  \/ SingleCheckConnections
  \/ \E u \in User, throws \in BOOLEAN : SingleSendToClient(u, throws)

SingleSpec == Init /\ [][SingleNext]_vars

\* ----------------------------------------------------------- dispatcher

\* f is the socket on which conn.send(JSON.stringify(data)) throws in this call
\* (NoConn: no send throws). The forEach sits inside one try block, so a throw
\* leaves the loop; acc = [delivered, success, thrownAt].
RECURSIVE SendLoop(_, _, _, _)
SendLoop(conns, rs, f, acc) ==
  IF conns = <<>> THEN acc
  ELSE LET c == Head(conns)
       IN IF rs[c] = OPEN
            THEN IF c = f
                   THEN [acc EXCEPT !.thrownAt = c]
                   ELSE SendLoop(Tail(conns), rs, f,
                                 [acc EXCEPT !.delivered = @ \cup {c}, !.success = TRUE])
            ELSE SendLoop(Tail(conns), rs, f, acc)

NoSend == [delivered |-> {}, success |-> FALSE, thrownAt |-> NoConn]

\* sendToClient(ws: string, data): [ret, delivered, thrownAt, escaped]
SendToUser(u, f) ==
  IF u \notin DOMAIN clients \/ Len(clients[u]) = 0
    THEN [ret |-> FALSE, delivered |-> {}, thrownAt |-> NoConn, escaped |-> FALSE]
    ELSE LET r == SendLoop(clients[u], readyState, f, NoSend)
         IN [ret |-> IF r.thrownAt # NoConn THEN FALSE ELSE r.success,  \* catch: return false
             delivered |-> r.delivered,
             thrownAt |-> r.thrownAt,
             escaped |-> FALSE]

\* a broadcast that sends without looking at readyState
RECURSIVE BroadcastLoopAnyState(_, _, _, _)
BroadcastLoopAnyState(conns, ex, f, acc) ==
  IF conns = <<>> THEN acc
  ELSE LET c == Head(conns)
       IN IF ex # NoUser /\ userId[c] = ex
            THEN BroadcastLoopAnyState(Tail(conns), ex, f, acc)
            ELSE IF c = f
                   THEN [acc EXCEPT !.thrownAt = c]
                   ELSE BroadcastLoopAnyState(Tail(conns), ex, f,
                          [acc EXCEPT !.delivered = @ \cup {c}, !.success = TRUE])

\* the forEach of broadcast over wss.clients, again inside one try block
RECURSIVE BroadcastLoop(_, _, _, _)
BroadcastLoop(conns, ex, f, acc) ==
  IF conns = <<>> THEN acc
  ELSE LET c == Head(conns)
       IN IF ex # NoUser /\ userId[c] = ex
            THEN BroadcastLoop(Tail(conns), ex, f, acc)
            ELSE IF readyState[c] = OPEN
                   THEN IF c = f
                          THEN [acc EXCEPT !.thrownAt = c]
                          ELSE BroadcastLoop(Tail(conns), ex, f,
                                 [acc EXCEPT !.delivered = @ \cup {c}, !.success = TRUE])
                   ELSE BroadcastLoop(Tail(conns), ex, f, acc)

OpenSockets == {c \in Conn : readyState[c] = OPEN}

\* handleMessage for a ping envelope on socket c, whose 'message' handler was
\* attached after its handshake succeeded: sendToClient(ws, {type: 'pong'});
\* throws: ws.send throws, which sendToClient catches
ServerHandleMessage(c, throws) ==
  /\ c \in Range(wssClients)
  /\ userId[c] # NoUser
  /\ readyState[c] \in {OPEN, CLOSING}
  /\ last' = [NoCall EXCEPT !.op = "pong", !.user = userId[c],
                            !.ret = (readyState[c] = OPEN /\ ~throws),
                            !.delivered = IF readyState[c] = OPEN /\ ~throws THEN {c} ELSE {},
                            !.thrownAt = IF readyState[c] = OPEN /\ throws THEN c ELSE NoConn]
  /\ UNCHANGED <<wssClients, readyState, userId, isAlive, clients, closeCode, missed>>
  /\ UNCHANGED <<config, clientMap, latestOf, clientVars>>

SendToClient(u, f) ==
  LET r == SendToUser(u, f)
  IN /\ last' = [NoCall EXCEPT !.op = "sendToClient", !.user = u, !.ret = r.ret,
                               !.escaped = r.escaped, !.delivered = r.delivered,
                               !.thrownAt = r.thrownAt]
     /\ UNCHANGED <<wssClients, readyState, userId, isAlive, clients, closeCode, missed>>
     /\ UNCHANGED <<config, clientMap, latestOf, clientVars>>

\* notifyNewMessage wraps the payload in a new_message envelope and calls
\* sendToClient, whose result it drops
NotifyNewMessage(u, f) ==
  LET r == SendToUser(u, f)
  IN /\ last' = [NoCall EXCEPT !.op = "notifyNewMessage", !.user = u,
                               !.escaped = r.escaped, !.delivered = r.delivered,
                               !.thrownAt = r.thrownAt]
     /\ UNCHANGED <<wssClients, readyState, userId, isAlive, clients, closeCode, missed>>
     /\ UNCHANGED <<config, clientMap, latestOf, clientVars>>

\* broadcast(data, excludeUserId?): ex = NoUser when no user is excluded
Broadcast(ex, f) ==
  LET r == BroadcastLoop(wssClients, ex, f, NoSend)
  IN /\ last' = [NoCall EXCEPT !.op = "broadcast", !.user = ex,
                               !.delivered = r.delivered, !.thrownAt = r.thrownAt]
     /\ UNCHANGED <<wssClients, readyState, userId, isAlive, clients, closeCode, missed>>
     /\ UNCHANGED <<config, clientMap, latestOf, clientVars>>

ServerNext ==
  \/ \E tok \in Token, origin \in Origin : Upgrade(tok, origin)
  \/ \E c \in Conn : Pong(c)
  \/ \E c \in Conn : SocketClosed(c)
  \/ CheckConnections
  \/ \E u \in User, f \in OpenSockets \cup {NoConn} : SendToClient(u, f)
  \/ \E u \in User, f \in OpenSockets \cup {NoConn} : NotifyNewMessage(u, f)
  \/ \E ex \in User \cup {NoUser}, f \in OpenSockets \cup {NoConn} : Broadcast(ex, f)
  \/ \E c \in Conn, throws \in BOOLEAN : ServerHandleMessage(c, throws)

Spec == Init /\ [][ServerNext]_vars


\* ============================================================== client
\* ------------------------------------------------------------ listeners
\* notifyMessageListeners(type, data): every callback registered under type is
\* called once; inv counts the calls made so far in this step
Notify(inv, type) ==
  IF type \in ListenType THEN [inv EXCEPT ![type] = @ + messageListeners[type]] ELSE inv

\* addEventListener(type, callback)
AddEventListener(t) ==
  /\ messageListeners[t] < MaxListeners
  /\ messageListeners' = [messageListeners EXCEPT ![t] = @ + 1]
  /\ lastEv' = [NoEvent EXCEPT !.op = "listen"]
  /\ UNCHANGED <<sockState, socket, isConnected, reconnectAttempts, timerPending,
                 heartbeatOn, urlSet, idle, newSinceIdle, abnormalRun, staleTimer,
                 failedCount>>
  /\ UNCHANGED serverVars

\* removeEventListener(type, callback) for a registered callback
RemoveEventListener(t) ==
  /\ messageListeners[t] > 0
  /\ messageListeners' = [messageListeners EXCEPT ![t] = @ - 1]
  /\ lastEv' = [NoEvent EXCEPT !.op = "unlisten"]
  /\ UNCHANGED <<sockState, socket, isConnected, reconnectAttempts, timerPending,
                 heartbeatOn, urlSet, idle, newSinceIdle, abnormalRun, staleTimer,
                 failedCount>>
  /\ UNCHANGED serverVars

\* a handler that hands every envelope to the listeners, pong included
DispatchedAll(type) == Notify(Notify(NoneInvoked, "message"), type)

\* handleMessage: a pong returns at once; any other envelope goes to the
\* 'message' listeners and then to the listeners of its type
Dispatched(type) ==
  IF type = "pong" THEN NoneInvoked
  ELSE Notify(Notify(NoneInvoked, "message"), type)

\* socket k's onmessage with an envelope of the given type
HandleMessage(k, type) ==
  /\ sockState[k] = OPEN
  /\ lastEv' = [NoEvent EXCEPT !.op = "message", !.name = type,
                               !.invoked = Dispatched(type)]
  /\ UNCHANGED <<sockState, socket, isConnected, reconnectAttempts, timerPending,
                 heartbeatOn, urlSet, idle, newSinceIdle, abnormalRun, staleTimer,
                 failedCount, messageListeners>>
  /\ UNCHANGED serverVars

\* The browser's WebSocket: close() without a code on an OPEN socket ends in a
\* close event with code 1005, on a CONNECTING socket the connection fails with
\* 1006; a CLOSING or CLOSED socket ignores close().
LiveSocks == {k \in Slot : sockState[k] \in {CONNECTING, OPEN}}
FreeSocks == {k \in Slot : sockState[k] = CLOSED}

SocketClose(ss, k) ==
  IF k # NoSock /\ ss[k] \in {CONNECTING, OPEN} THEN [ss EXCEPT ![k] = CLOSING] ELSE ss

\* close codes the browser can report for socket k
CloseCodes(k) ==
  IF sockState[k] = CLOSING THEN {NoStatusReceived, AbnormalClosure}
  ELSE IF sockState[k] = CONNECTING THEN {AbnormalClosure}
  ELSE {NormalClosure, GoingAway, AbnormalClosure, PolicyViolation, InternalError}

\* a cancel that leaves the timer armed
CancelReconnectKeeps(pending) == pending

\* cancelReconnect(): clearTimeout on the armed timer, if any
CancelReconnect(pending) == FALSE

\* disconnectWebSocket(): stopHeartbeat, close and drop the socket,
\* cancelReconnect, isConnected = false, reconnectAttempts = 0
DisconnectWebSocket ==
  /\ heartbeatOn' = FALSE
  /\ sockState' = SocketClose(sockState, socket)
  /\ socket' = NoSock
  /\ timerPending' = CancelReconnect(timerPending)
  /\ isConnected' = FALSE
  /\ reconnectAttempts' = 0
  /\ idle' = TRUE
  /\ newSinceIdle' = FALSE
  /\ abnormalRun' = 0
  /\ staleTimer' = FALSE
  /\ failedCount' = 0
  /\ lastEv' = [NoEvent EXCEPT !.op = "disconnect"]
  /\ UNCHANGED urlSet
  /\ UNCHANGED <<serverVars, messageListeners>>

\* connectWebSocket(token): disconnectWebSocket(), then a new socket with the
\* four handlers bound to this service
ConnectWebSocket ==
  /\ \E k \in Slot : SocketClose(sockState, socket)[k] = CLOSED
  /\ LET closed == SocketClose(sockState, socket)
         k == Min({j \in Slot : closed[j] = CLOSED})
     IN /\ sockState' = [closed EXCEPT ![k] = CONNECTING]
        /\ socket' = k
  /\ heartbeatOn' = FALSE
  /\ timerPending' = CancelReconnect(timerPending)
  /\ isConnected' = FALSE
  /\ reconnectAttempts' = 0
  /\ urlSet' = TRUE
  /\ idle' = FALSE
  /\ newSinceIdle' = FALSE
  /\ abnormalRun' = 0
  /\ staleTimer' = FALSE
  /\ failedCount' = 0
  /\ lastEv' = [NoEvent EXCEPT !.op = "connect"]
  /\ UNCHANGED <<serverVars, messageListeners>>

\* handleOpen: isConnected = true, reconnectAttempts = 0, startHeartbeat
TransportOpen(k) ==
  /\ sockState[k] = CONNECTING
  /\ sockState' = [sockState EXCEPT ![k] = OPEN]
  /\ isConnected' = TRUE
  /\ reconnectAttempts' = 0
  /\ heartbeatOn' = TRUE
  /\ abnormalRun' = 0
  /\ staleTimer' = timerPending
  /\ failedCount' = 0
  /\ lastEv' = [NoEvent EXCEPT !.op = "open"]
  /\ UNCHANGED <<socket, timerPending, urlSet, idle, newSinceIdle>>
  /\ UNCHANGED <<serverVars, messageListeners>>

\* a reconnect guard that lets one attempt too many through
ReconnectExhaustedLate(n) == n > MaxReconnectAttempts

\* attemptReconnect: if (this.reconnectAttempts >= this.maxReconnectAttempts)
ReconnectExhausted(n) == n >= MaxReconnectAttempts

\* a close handler that takes every closure for a normal one
EveryClosureNormal(code) == TRUE

\* a close handler that takes only 1000 for a normal closure
OnlyNormalClosure(code) == code = NormalClosure

\* handleClose: event.code !== 1000 && event.code !== 1001 is the abnormal case
IsNormalClosure(code) == code = NormalClosure \/ code = GoingAway

\* a reconnecting event that carries the attempts made so far
AttemptsSoFar(n) == n

\* attemptReconnect: the attempt number the reconnecting event carries
ReconnectingAttempt(n) == n + 1

\* a timer callback that counts an expiry twice
CountedTwice(n) == n + 2

\* the setTimeout callback: this.reconnectAttempts++
NextAttempt(n) == n + 1

\* ------------------------------------------------------------- backoff
\* Delays are exact rationals. Backoff counts in 1 / 2^MaxReconnectAttempts ms,
\* FinalDelay in 1 / DelayUnit ms.
RECURSIVE Pow(_, _)
Pow(b, e) == IF e = 0 THEN 1 ELSE b * Pow(b, e - 1)

DelayUnit == Pow(2, MaxReconnectAttempts) * 10 * JitterSteps

\* a backoff without the cap
BackoffUncapped(n) == InitialReconnectDelay * Pow(3, n) * Pow(2, MaxReconnectAttempts - n)

\* Math.min(initialReconnectDelay * Math.pow(1.5, reconnectAttempts), maxReconnectDelay)
Backoff(n) ==
  LET raw == InitialReconnectDelay * Pow(3, n) * Pow(2, MaxReconnectAttempts - n)
      cap == MaxReconnectDelay * Pow(2, MaxReconnectAttempts)
  IN IF raw < cap THEN raw ELSE cap

\* a jitter of twice the width
FinalDelayWideJitter(n, k) == Backoff(n) * (8 * JitterSteps + 4 * k)

\* finalDelay = delay + delay * 0.1 * (Math.random() * 2 - 1), with
\* Math.random() = k / JitterSteps
FinalDelay(n, k) == Backoff(n) * (9 * JitterSteps + 2 * k)

\* handleClose(event) for the close event of socket k, attemptReconnect included
TransportClose(k, code, rnd) ==
  /\ sockState[k] \in {CONNECTING, OPEN, CLOSING}
  /\ code \in CloseCodes(k)
  /\ sockState' = [sockState EXCEPT ![k] = CLOSED]
  /\ isConnected' = FALSE
  /\ heartbeatOn' = FALSE
  /\ IF ~IsNormalClosure(code)
       THEN /\ abnormalRun' = IF abnormalRun <= MaxReconnectAttempts
                                THEN abnormalRun + 1 ELSE abnormalRun
            /\ IF ReconnectExhausted(reconnectAttempts)
                 THEN /\ lastEv' = [name |-> "reconnect_failed", attempt |-> 0,
                                     op |-> "close", code |-> code, delay |-> 0,
                                     invoked |-> Notify(NoneInvoked, "reconnect_failed")]
                      /\ failedCount' = IF failedCount < 2 THEN failedCount + 1 ELSE failedCount
                      /\ UNCHANGED timerPending
                 ELSE \* cancelReconnect, then a fresh setTimeout
                      /\ lastEv' = [name |-> "reconnecting",
                                     attempt |-> ReconnectingAttempt(reconnectAttempts),
                                     op |-> "close", code |-> code,
                                     delay |-> FinalDelay(reconnectAttempts, rnd),
                                     invoked |-> Notify(NoneInvoked, "reconnecting")]
                      /\ timerPending' = TRUE
                      /\ UNCHANGED failedCount
       ELSE /\ lastEv' = [NoEvent EXCEPT !.op = "close", !.code = code]
            /\ UNCHANGED <<abnormalRun, failedCount, timerPending>>
  /\ UNCHANGED <<socket, reconnectAttempts, urlSet, idle, newSinceIdle, staleTimer>>
  /\ UNCHANGED <<serverVars, messageListeners>>

\* the setTimeout callback of attemptReconnect: reconnectAttempts++, and with a
\* url a new socket replaces this.socket
ReconnectTimerFires ==
  /\ timerPending
  /\ urlSet => FreeSocks # {}
  /\ timerPending' = FALSE
  /\ reconnectAttempts' = NextAttempt(reconnectAttempts)
  /\ IF urlSet
       THEN LET k == Min(FreeSocks)
            IN /\ sockState' = [sockState EXCEPT ![k] = CONNECTING]
               /\ socket' = k
               /\ newSinceIdle' = idle
       ELSE UNCHANGED <<sockState, socket, newSinceIdle>>
  /\ lastEv' = [NoEvent EXCEPT !.op = "timer"]
  /\ UNCHANGED <<isConnected, heartbeatOn, urlSet, idle, abnormalRun, staleTimer, failedCount>>
  /\ UNCHANGED <<serverVars, messageListeners>>

\* The delay is announced and handed to the timer; nothing else depends on it
\* and timer expiry is untimed here, so this specification draws Math.random()
\* from one value only. BackoffSpec draws it from all of them.
ClientNext ==
  \/ ConnectWebSocket
  \/ DisconnectWebSocket
  \/ \E k \in Slot : TransportOpen(k)
  \/ \E k \in Slot, code \in {NormalClosure, GoingAway, NoStatusReceived,
                              AbnormalClosure, PolicyViolation, InternalError} :
       TransportClose(k, code, 0)
  \/ ReconnectTimerFires

ClientSpec == Init /\ [][ClientNext]_vars

\* the reconnect loop of a client whose attempts all fail, with every jitter
BackoffNext ==
  \/ ConnectWebSocket
  \/ \E k \in Slot, code \in {AbnormalClosure, InternalError},
        rnd \in 0..(JitterSteps - 1) :
       TransportClose(k, code, rnd)
  \/ ReconnectTimerFires

BackoffSpec == Init /\ [][BackoffNext]_vars

\* The same loop with its scheduling: an armed setTimeout expires, and every
\* socket that does not open ends in a close event.
FairBackoffSpec ==
  /\ Init
  /\ [][BackoffNext]_vars
  /\ WF_vars(ReconnectTimerFires)
  /\ WF_vars(\E k \in Slot, code \in {AbnormalClosure, InternalError},
                 rnd \in 0..(JitterSteps - 1) : TransportClose(k, code, rnd))

\* the application registering listeners around one connection
ListenerNext ==
  \/ \E t \in ListenType : AddEventListener(t)
  \/ \E t \in ListenType : RemoveEventListener(t)
  \/ ConnectWebSocket
  \/ \E k \in Slot : TransportOpen(k)
  \/ \E k \in Slot, type \in InboundType : HandleMessage(k, type)

ListenerSpec == Init /\ [][ListenerNext]_vars

\* ======================================================= server claims
UserConns(u) == IF u \in DOMAIN clients THEN Range(clients[u]) ELSE {}

OpenConnsOf(u) == {c \in UserConns(u) : readyState[c] = OPEN}

\* C1: every user id that is a key of the registry maps to a non-empty list of
\* connections; the close handler deletes the key with the user's last connection.
C1_RegistryNonEmpty ==
  \A u \in DOMAIN clients : Len(clients[u]) > 0

\* C1 witness: the close handler has just removed a user's last connection and
\* the user's key is gone.
C1_Witness ==
  /\ last.op = "closed"
  /\ last.user # NoUser
  /\ last.user \notin DOMAIN clients

\* C2 (as claimed): sendToClient(userId, envelope) returns true iff at least one
\* connection registered for the user is OPEN at the call; false for an unknown user.
C2_TrueIffOpen ==
  last.op = "sendToClient" => (last.ret <=> OpenConnsOf(last.user) # {})

\* C6: a registered connection that answers no ping is terminated no later than
\* the second sweep after its last pong: no registered connection is still OPEN
\* once 2 x interval of sweeps have passed over it without a pong.
EvictionDeadlineMs == 2 * PingIntervalMs

C6_EvictedBySecondSweep ==
  \A c \in Registered :
    readyState[c] = OPEN => missed[c] * PingIntervalMs < EvictionDeadlineMs

\* C6 witness: a sweep has just terminated a registered connection that two
\* sweeps visited since its last pong.
C6_Witness ==
  /\ last.op = "sweep"
  /\ \E c \in Registered \cap last.dead :
       missed[c] * PingIntervalMs = EvictionDeadlineMs /\ readyState[c] = CLOSING

\* C7 (as claimed): once a sweep has completed, the registry holds no connection
\* whose liveness flag was false when the sweep visited it.
C7_SweepUnregisters ==
  last.op = "sweep" => last.dead \cap Registered = {}

\* C7 (amended): a connection visited with its flag false is terminated by the
\* sweep (no longer OPEN when the sweep has completed); it leaves the registry
\* when its close event is handled, so the registry never holds a CLOSED socket.
C7_SweepTerminates ==
  /\ last.op = "sweep" => \A c \in last.dead : readyState[c] = CLOSING
  /\ \A c \in Registered : readyState[c] # CLOSED

\* C7 witness: the sweep has terminated a connection that is still registered.
C7_Witness ==
  /\ last.op = "sweep"
  /\ \E c \in last.dead : c \in Registered /\ readyState[c] = CLOSING

\* C8 (as claimed): sendToClient, and notifyNewMessage through it, sends the
\* envelope to every OPEN connection of the user and to no other connection.
C8_AllOpenOfUser ==
  last.op \in {"sendToClient", "notifyNewMessage"}
    => last.delivered = OpenConnsOf(last.user)

\* C9 (as claimed): a failed send is contained to that send: nothing is thrown to
\* the caller, the user's other open connections still get the envelope, and the
\* result is true iff at least one send succeeded.
C9_FailureContained ==
  last.op = "sendToClient" =>
    /\ ~last.escaped
    /\ last.delivered = OpenConnsOf(last.user) \ {last.thrownAt}
    /\ last.ret <=> (last.delivered # {})

\* C10 (as claimed): broadcast(envelope, U) sends to no connection owned by U and
\* to every other OPEN connection, even if a send to one connection fails.
C10_BroadcastReach ==
  last.op = "broadcast" =>
    /\ \A c \in last.delivered : last.user = NoUser \/ userId[c] # last.user
    /\ last.delivered =
         {c \in Range(wssClients) :
            readyState[c] = OPEN /\ (last.user = NoUser \/ userId[c] # last.user)}
         \ {last.thrownAt}

\* C11: a sweep never terminates a connection whose liveness flag is true when
\* visited: it clears the flag and pings; only a pong (or the handshake) makes
\* the flag true, so a connection is terminated only when two consecutive sweeps
\* saw no pong, and a new connection survives its first sweep.
C11_AliveIsPingedNotReaped ==
  /\ last.op = "sweep" =>
       /\ \A c \in last.delivered : ~isAlive[c] /\ c \notin last.dead
       /\ \A c \in last.dead \cap Registered : missed[c] = 2
       /\ \A c \in Registered : missed[c] = 1 => c \in last.delivered
  /\ \A c \in Range(wssClients) : isAlive[c] => missed[c] = 0

\* C11 witness: a sweep has pinged a registered connection on its first visit and
\* left it open with the flag cleared.
C11_Witness ==
  /\ last.op = "sweep"
  /\ \E c \in last.delivered \cap Registered :
       missed[c] = 1 /\ readyState[c] = OPEN /\ ~isAlive[c]
RegistryPlaces(c) ==
  {p \in UNION {{<<u, i>> : i \in 1..Len(clients[u])} : u \in DOMAIN clients} :
     clients[p[1]][p[2]] = c}

\* C13: a connection sits in at most one user's list and at most once in it, the
\* list is the one of the user id the socket got at handshake, and that user id
\* never changes while the socket is tracked.
C13_OnePlaceFixedUser ==
  /\ [](\A c \in Conn :
         /\ Cardinality(RegistryPlaces(c)) <= 1
         /\ \A p \in RegistryPlaces(c) : userId[c] = p[1])
  /\ [][\A c \in Conn :
          (userId[c] # NoUser /\ c \in Range(wssClients')) => userId'[c] = userId[c]]_vars

\* C13 witness: one user holds two connections while both are open.
C13_Witness ==
  \E u \in DOMAIN clients :
    /\ Len(clients[u]) = 2
    /\ \A c \in Range(clients[u]) : readyState[c] = OPEN /\ userId[c] = u
\* the step that led here handled a handshake
Handshaken == last.op \in {"connected", "rejected", "refused"}

C16_OriginGate ==
  (production /\ Handshaken /\ last.origin \notin allowedOrigins) =>
    /\ last.op = "refused"
    /\ last.status = Forbidden

\* C17: a handshake with a valid token appends the socket to the user's list
\* (creating the key if absent, keeping the others in order) and sends one
\* connected envelope, to that socket only.
C17_RegisteredAndWelcomed ==
  [][(last.op = "connected")' =>
       \E c \in Conn \ Range(wssClients) :
         LET u == last'.user
             old == IF u \in DOMAIN clients THEN clients[u] ELSE <<>>
         IN /\ u = last'.tok /\ u \in User
            /\ DOMAIN clients' = DOMAIN clients \cup {u}
            /\ clients'[u] = Append(old, c)
            /\ \A v \in DOMAIN clients \ {u} : clients'[v] = clients[v]
            /\ last'.delivered = {c} /\ last'.ret]_vars

\* C17 witness: a second connection of a user was appended behind the first.
C17_Witness ==
  /\ last.op = "connected"
  /\ Len(clients[last.user]) = 2
  /\ clients[last.user][2] \in last.delivered

\* ======================================================= client claims
\* C3 (as claimed): after disconnectWebSocket() returns, no backoff timer is
\* scheduled and no new socket is opened until connectWebSocket is called again.
C3_DisconnectTerminal ==
  idle => ~timerPending /\ ~newSinceIdle

\* C4 (as claimed): at most one socket created by the client is CONNECTING or
\* OPEN at any time.
C4_AtMostOneActive ==
  Cardinality(LiveSocks) <= 1

SocketCreated == \E k \in Slot : sockState[k] # CONNECTING /\ sockState'[k] = CONNECTING

\* C18: a close with code 1000 or 1001 emits no reconnecting event, schedules no
\* backoff timer and opens no socket.
C18_NormalCloseNoRetry ==
  [][(lastEv.op = "close" /\ lastEv.code \in {NormalClosure, GoingAway})' =>
       /\ lastEv'.name = "none"
       /\ timerPending' = timerPending
       /\ reconnectAttempts' = reconnectAttempts
       /\ socket' = socket
       /\ ~SocketCreated]_vars

\* C18 witness: a going-away close left the client without timer and socket.
C18_Witness ==
  /\ lastEv.op = "close" /\ lastEv.code = GoingAway
  /\ ~timerPending /\ LiveSocks = {} /\ ~idle

\* C19: a close with another code while the counter n is below the maximum
\* emits one reconnecting event with attempt n + 1 and arms the backoff timer;
\* the retry socket is created only later, by the timer.
C19_ReconnectingBeforeRetry ==
  [][/\ (lastEv.op = "close" /\ lastEv.code \notin {NormalClosure, GoingAway})'
         /\ reconnectAttempts < MaxReconnectAttempts =>
           /\ lastEv'.name = "reconnecting"
           /\ lastEv'.attempt = reconnectAttempts + 1
           /\ timerPending'
           /\ reconnectAttempts' = reconnectAttempts
           /\ socket' = socket
           /\ ~SocketCreated
     /\ SocketCreated =>
           \/ lastEv'.op = "connect"
           \/ lastEv'.op = "timer" /\ timerPending /\ ~timerPending']_vars

\* C19 witness: the close of the first retry's socket announced attempt 2.
C19_Witness ==
  /\ lastEv.op = "close" /\ lastEv.code = AbnormalClosure
  /\ lastEv.name = "reconnecting" /\ lastEv.attempt = 2
  /\ reconnectAttempts = 1 /\ timerPending

\* C20 as stated: the counter is 0 after every open, otherwise it only grows,
\* by exactly 1 per timer expiry, and it never exceeds the maximum.
C20_ResetOnlyOnOpen ==
  [][/\ lastEv'.op = "open" => reconnectAttempts' = 0
     /\ lastEv'.op = "timer" => reconnectAttempts' = reconnectAttempts + 1
     /\ lastEv'.op \notin {"open", "timer"} => reconnectAttempts' = reconnectAttempts
     /\ reconnectAttempts' <= MaxReconnectAttempts]_vars

\* C20 amended: the counter is 0 after every open and after every
\* connectWebSocket or disconnectWebSocket call, otherwise it only grows, by
\* exactly 1 per timer expiry, and it never exceeds the maximum.
C20_ResetOnOpenAndApi ==
  [][/\ lastEv'.op \in {"open", "connect", "disconnect"} => reconnectAttempts' = 0
     /\ lastEv'.op = "timer" => reconnectAttempts' = reconnectAttempts + 1
     /\ lastEv'.op = "close" => reconnectAttempts' = reconnectAttempts
     /\ reconnectAttempts' <= MaxReconnectAttempts]_vars

\* C20 witness: the tenth timer expiry took the counter to the maximum.
C20_Witness ==
  lastEv.op = "timer" /\ reconnectAttempts = MaxReconnectAttempts

\* C21: the delay handed to the backoff timer, jitter included, never exceeds
\* maxReconnectDelay.
C21_DelayWithinMax ==
  lastEv.name = "reconnecting" => lastEv.delay <= MaxReconnectDelay * DelayUnit

\* what 1000 * 1.5^n capped at 30000 is, in 1 / 2^MaxReconnectAttempts ms
ExpectedBackoff(n) ==
  IF InitialReconnectDelay * Pow(3, n) <= MaxReconnectDelay * Pow(2, n)
    THEN InitialReconnectDelay * Pow(3, n) * Pow(2, MaxReconnectAttempts - n)
    ELSE MaxReconnectDelay * Pow(2, MaxReconnectAttempts)

\* C22: for attempt counter n the delay lies within 10% of min(1000 * 1.5^n,
\* 30000) ms, which is 1000 ms for n = 0 and 5062.5 ms for n = 4, and the delay
\* before jitter does not decrease with n.
C22_DelayWithinTenPercent ==
  /\ lastEv.name = "reconnecting" =>
       LET n == reconnectAttempts
           mid == ExpectedBackoff(n)
       IN /\ lastEv.attempt = n + 1
          /\ lastEv.delay >= 9 * mid * JitterSteps
          /\ lastEv.delay <= 11 * mid * JitterSteps
          /\ n = 0 => mid = InitialReconnectDelay * Pow(2, MaxReconnectAttempts)
          /\ n = 4 => 2 * mid = 10125 * Pow(2, MaxReconnectAttempts)
          /\ Backoff(n) <= Backoff(n + 1)
          /\ n > 0 => Backoff(n - 1) <= Backoff(n)

\* C22 witness: the fifth retry was announced with a delay above 5062.5 ms.
C22_Witness ==
  /\ lastEv.name = "reconnecting" /\ reconnectAttempts = 4
  /\ 2 * lastEv.delay > 10125 * DelayUnit

\* C23: after disconnectWebSocket no backoff timer is pending, no heartbeat
\* runs, no socket is referenced, isConnected is false and the counter is 0, and
\* calling it again at once changes nothing.
C23_DisconnectIdempotent ==
  lastEv.op = "disconnect" =>
    /\ ~timerPending /\ ~heartbeatOn /\ socket = NoSock
    /\ ~isConnected /\ reconnectAttempts = 0
    /\ ENABLED DisconnectWebSocket
    /\ ~ENABLED (DisconnectWebSocket /\ vars' # vars)

\* C23 witness: disconnectWebSocket has closed a socket that is still closing.
C23_Witness ==
  lastEv.op = "disconnect" /\ \E k \in Slot : sockState[k] = CLOSING

\* the socket this.socket refers to is open
CurrentOpen == socket # NoSock /\ sockState[socket] = OPEN

\* C24: the heartbeat timer runs only while the current connection is open and
\* the backoff timer is pending only while it is not, so the two are never
\* active together, and the heartbeat is not stopped while the current socket
\* is still open.
C24_TimersExclusive ==
  /\ heartbeatOn => CurrentOpen
  /\ timerPending => ~CurrentOpen
  /\ ~(heartbeatOn /\ timerPending)
  /\ CurrentOpen => heartbeatOn

\* C25: on transport open every callback registered under 'open' is called
\* once.
C25_OpenEmitted ==
  lastEv.op = "open" => lastEv.invoked["open"] = messageListeners["open"]

\* C28: a pong envelope reaches no listener, neither those registered for
\* 'pong' nor the 'message' ones; every other envelope reaches the listeners of
\* its type and the 'message' listeners, once each.
C28_PongSilent ==
  lastEv.op = "message" =>
    \A t \in ListenType :
      lastEv.invoked[t] =
        IF lastEv.name = "pong" THEN 0
        ELSE IF t = "message" \/ t = lastEv.name THEN messageListeners[t]
        ELSE 0

\* C28 witness: a pong arrived while callbacks were registered for 'pong' and
\* for 'message'.
C28_Witness ==
  /\ lastEv.op = "message" /\ lastEv.name = "pong"
  /\ messageListeners["pong"] > 0 /\ messageListeners["message"] > 0

\* the client rests after giving up: reconnect_failed was the last event, no
\* backoff timer is pending and no socket is left
ReconnectGivenUp ==
  /\ lastEv.name = "reconnect_failed"
  /\ ~timerPending
  /\ \A k \in Slot : sockState[k] = CLOSED

\* C26: when no attempt ever opens, then once the application has called
\* connectWebSocket and stops calling it, the reconnect loop ends: reconnect_failed
\* is emitted and the client rests with no backoff timer and no socket.
C26_LoopTerminates ==
  \/ [](lastEv.op = "none")
  \/ []<>(lastEv.op = "connect")
  \/ <>[]ReconnectGivenUp

\* C26 witness: the client has given up after the full budget of retries.
C26_Witness ==
  ReconnectGivenUp /\ reconnectAttempts = MaxReconnectAttempts /\ abnormalRun > MaxReconnectAttempts

\* C27: a close with code 1008 is not retried: it emits no reconnecting event,
\* arms no backoff timer and leads to no new socket.
C27_NoRetryAfter1008 ==
  [][(lastEv.op = "close" /\ lastEv.code = PolicyViolation)' =>
       /\ lastEv'.name # "reconnecting"
       /\ timerPending' = timerPending
       /\ ~SocketCreated]_vars

\* C29: in the one-socket-per-user revision the close event or the heartbeat
\* timeout of a replaced socket does not remove the newer socket's entry: while
\* the user's newest socket is open the registry points at it and sendToClient
\* reaches it.
C29_NewerSocketStaysRegistered ==
  \A u \in User :
    LET c == latestOf[u]
    IN (c # NoConn /\ readyState[c] = OPEN) =>
         /\ clientMap[u] = c
         /\ (last.op = "sendToClient" /\ last.user = u /\ last.thrownAt = NoConn) =>
              (last.ret /\ last.delivered = {c})

\* sockets whose handshake failed and that wss.clients still holds
FailedAuth == {c \in Range(wssClients) : userId[c] = NoUser}

\* C30: no envelope (connected, pong, targeted or broadcast) and no ping goes to
\* a socket whose handshake failed, also while the socket is still in
\* wss.clients after its 1008 close.
C30_NothingToFailedAuth ==
  /\ last.delivered \cap FailedAuth = {}
  /\ \A c \in FailedAuth : readyState[c] = CLOSING /\ closeCode[c] = PolicyViolation

\* C30 witness: a broadcast reached an authenticated socket while a socket
\* closed with 1008 was still in wss.clients.
C30_Witness ==
  /\ last.op = "broadcast" /\ last.user = NoUser /\ last.thrownAt = NoConn
  /\ last.delivered # {}
  /\ FailedAuth # {}

====
